---- MODULE Spec2Model ----
(***************************************************************************)
(* zenvalidate: resolution of environment variables against a spec (zenv), *)
(* the protective proxy that wraps the resolved values, and the runtime    *)
(* detector both depend on.                                                *)
(*                                                                         *)
(* Names (keys, prefixes, property names) are sequences of one-character   *)
(* strings, so that String.prototype.startsWith is computed and not        *)
(* assumed.  JavaScript values are tagged records: [t |-> "undefined"],    *)
(* [t |-> "string", v |-> s], [t |-> "number", v |-> n], ...               *)
(***************************************************************************)
EXTENDS Naturals, Sequences, FiniteSets, TLC

VARIABLES
    window,       \* TRUE iff the global `window` is defined (front-end context)
    processEnv,   \* process.env: name -> value (empty when there is no process)
    specs,        \* first argument of zenv: sequence of [key, validator]
    options,      \* second argument of zenv
    pc,           \* "init" | "returned" | "thrown" | "exited"
    target,       \* the object the proxy wraps: resolved key -> value
    accessors,    \* the five properties addEnvAccessors defined on the target
    metadata,     \* Map<string, SchemaMetadata> captured by the proxy
    errors,       \* failures recorded by validateSpecs, in order
    proxy,        \* what createProtectiveProxy closed over
    lastGet,      \* the outcome of the latest property read
    processDefined, \* TRUE iff the global `process` is defined
    targetKeys,   \* Reflect.ownKeys(target): own property names in creation order
    log,          \* what zenv emitted, in order: reports, then its outcome
    lastOp,       \* the outcome of the latest write, delete or enumeration
    resolvedAt,   \* history: the context, process.env and source zenv ran in
    validated,    \* history: the keys whose validator zenv invoked
    ZENV_CLIENT,  \* window.__ZENV_CLIENT__: Unset, or the injected object as its
                  \* <<key, value>> pairs in property order
    previous      \* history: the outcome of the zenv call before the latest one

vars == <<window, processEnv, specs, options, pc, target, accessors,
          metadata, errors, proxy, lastGet, resolvedAt, validated,
          processDefined, targetKeys, log, lastOp, ZENV_CLIENT, previous>>

-----------------------------------------------------------------------------
(* JavaScript values *)

Undef == [t |-> "undefined"]
Str(s) == [t |-> "string", v |-> s]
\* (each type keeps its payload in a field of its own, so that values of
\* different types are never compared payload to payload)
Num(n) == [t |-> "number", n |-> n]
Bool(b) == [t |-> "boolean", b |-> b]

\* an optional field of an object literal: omitted, or present with a value
\* (which may itself be undefined)
Unset == [set |-> FALSE]
Declared(x) == [set |-> TRUE, v |-> x]

\* the value of `obj.field`, undefined when the field is omitted
FieldValue(opt) == IF opt.set THEN opt.v ELSE Undef

\* obj[k] of a plain object
Lookup(obj, k) == IF k \in DOMAIN obj THEN obj[k] ELSE Undef

EmptyMap == [k \in {} |-> Undef]

-----------------------------------------------------------------------------
(* Names *)

NODE_ENV == <<"N", "O", "D", "E", "_", "E", "N", "V">>
PUB_A == <<"P", "U", "B", "_", "A">>
PUB_S == <<"P", "U", "B", "_", "S">>
SEC == <<"S", "E", "C">>
then == <<"t", "h", "e", "n">>
OTHER_KEY == <<"X">>

isDevelopment == <<"i", "s", "D", "e", "v", "e", "l", "o", "p", "m", "e", "n", "t">>
isDev == <<"i", "s", "D", "e", "v">>
isProduction == <<"i", "s", "P", "r", "o", "d", "u", "c", "t", "i", "o", "n">>
isProd == <<"i", "s", "P", "r", "o", "d">>
isTest == <<"i", "s", "T", "e", "s", "t">>

\* core.ts: accessorProps
accessorProps == {isDevelopment, isDev, isProduction, isProd, isTest}

\* core.ts: inspectables, the string entries a spec key of the model can
\* coincide with ("then") and the internal prefixes field
clientSafePrefixesField == <<"_", "_", "c", "l", "i", "e", "n", "t", "S", "a", "f", "e",
                             "P", "r", "e", "f", "i", "x", "e", "s", "_", "_">>
inspectables == {<<"l", "e", "n", "g", "t", "h">>, <<"t", "o", "J", "S", "O", "N">>,
                 then, clientSafePrefixesField}

\* String.prototype.startsWith
StartsWith(str, prefix) ==
    /\ Len(prefix) <= Len(str)
    /\ \A i \in 1..Len(prefix) : str[i] = prefix[i]

\* guards: startsWithAny(str, prefixes)
startsWithAny(str, prefixes) ==
    \E i \in 1..Len(prefixes) : StartsWith(str, prefixes[i])

-----------------------------------------------------------------------------
(* runtime *)

\* runtime.isClient
isClient(w) == w

\* runtime.nodeEnv
nodeEnv(penv) ==
    IF NODE_ENV \in DOMAIN penv /\ penv[NODE_ENV].t = "string"
    THEN penv[NODE_ENV].v
    ELSE "production"

\* runtime.isDevelopment
runtimeIsDevelopment(penv) == nodeEnv(penv) = "development"

\* runtime.isTest
runtimeIsTest(penv) == nodeEnv(penv) = "test"

\* runtime.defaultClientAccessError
defaultClientAccessError(penv) == IF runtimeIsDevelopment(penv) THEN "warn" ELSE "ignore"

\* runtime.isNode: typeof process !== "undefined"
isNode(pd) == pd

\* runtime.defaultErrorBehavior
defaultErrorBehavior(pd) == IF isNode(pd) THEN "exit" ELSE "throw"

\* the plain object with the properties of an ordered list of pairs
AsMap(pairs) ==
    [k \in {pairs[i][1] : i \in 1..Len(pairs)} |->
        pairs[CHOOSE i \in 1..Len(pairs) : pairs[i][1] = k][2]]

\* runtime.env: whether the getter returns process.env itself
runtimeEnvIsProcessEnv(w, zc, pd) == ~(isClient(w) /\ zc.set) /\ pd

\* runtime.env: the injected object on the front-end when there is one, else
\* process.env when there is a process, else a new empty object
runtimeEnv(w, zc, pd, penv) ==
    IF isClient(w) /\ zc.set THEN AsMap(zc.v)
    ELSE IF pd THEN penv
    ELSE EmptyMap

-----------------------------------------------------------------------------
(* Leaf validators and their metadata.  A validator is                     *)
(*   [valid, choices, dflt, devDefault, testDefault, client]               *)
(* valid: isZodSchema accepts the spec entry; choices: Unset or the        *)
(* accepted strings; the three defaults: Unset or Declared(value);         *)
(* client: Unset or Declared([expose, transform, dflt, devDefault]).       *)

\* the default a validator applies to a missing raw value in the mode of
\* penv: Unset when none applies
applicableDefault(validator, penv) ==
    IF runtimeIsDevelopment(penv) /\ validator.devDefault.set THEN validator.devDefault
    ELSE IF runtimeIsTest(penv) /\ validator.testDefault.set THEN validator.testDefault
    ELSE validator.dflt

\* schema.parse(value): [ok |-> TRUE, value] or [ok |-> FALSE, kind]
parse(validator, value, penv) ==
    IF value # Undef
    THEN IF validator.choices.set /\ value \notin validator.choices.v
         THEN [ok |-> FALSE, kind |-> "invalid"]
         ELSE [ok |-> TRUE, value |-> value]
    ELSE LET d == applicableDefault(validator, penv)
         IN IF d.set THEN [ok |-> TRUE, value |-> d.v]
            ELSE [ok |-> FALSE, kind |-> "missing"]

\* validators: getMetadata(schema); the fields the core reads
getMetadata(validator) == [client |-> validator.client]

\* a client transform: an injective function of the value it is given
applyTransform(value) == [t |-> "transformed", of |-> value]

-----------------------------------------------------------------------------
(* core.ts *)

\* options.<field> with its destructuring default
optionOr(opt, dfltValue) == IF opt.set THEN opt.v ELSE dfltValue

\* validateSingleSpec: the metadata it stores and the outcome of schema.parse
validateSingleSpec(key, schema, value, opts, penv) ==
    LET meta == getMetadata(schema)
        clientSafePrefixes == optionOr(opts.clientSafePrefixes, <<>>)
        serverOnlyPrefixes == optionOr(opts.serverOnlyPrefixes, <<>>)
        isServerOnly == Len(serverOnlyPrefixes) > 0 /\ startsWithAny(key, serverOnlyPrefixes)
        isAutoExposed == ~isServerOnly /\ Len(clientSafePrefixes) > 0
                         /\ startsWithAny(key, clientSafePrefixes)
        finalClient == IF isServerOnly /\ meta.client.set
                       THEN Declared([meta.client.v EXCEPT !.expose = FALSE])
                       ELSE meta.client
    IN [meta |-> [client |-> finalClient,
                  autoExposed |-> Declared(isAutoExposed),
                  serverOnly |-> isServerOnly],
        parsed |-> parse(schema, value, penv)]

\* validateSpecs, client branch: whether the key is skipped without validation
shouldSkip(key, validator, opts) ==
    LET meta == getMetadata(validator)
        clientSafePrefixes == optionOr(opts.clientSafePrefixes, <<>>)
        isAutoExposed == Len(clientSafePrefixes) > 0 /\ startsWithAny(key, clientSafePrefixes)
        isExplicitlyExposed == meta.client.set /\ meta.client.v.expose = TRUE
    IN ~isAutoExposed /\ ~isExplicitlyExposed

\* variant of validateEntry that never reads the raw value of the key
validateEntry_DefaultsOnly(acc, entry, env, opts, w, penv) ==
    LET key == entry.key
        validator == entry.validator
    IN IF ~validator.valid
       THEN [acc EXCEPT !.errors = Append(@, [key |-> key, kind |-> "custom"])]
       ELSE IF isClient(w) /\ shouldSkip(key, validator, opts)
       THEN [acc EXCEPT !.metadata = (key :> [client |-> getMetadata(validator).client,
                                               autoExposed |-> Unset,
                                               serverOnly |-> TRUE]) @@ @]
       ELSE LET rawValue == Undef
                single == validateSingleSpec(key, validator, rawValue, opts, penv)
                withMeta == [acc EXCEPT !.metadata = (key :> single.meta) @@ @,
                                        !.parsedKeys = @ \cup {key}]
            IN IF single.parsed.ok
               THEN [withMeta EXCEPT !.result = (key :> single.parsed.value) @@ @,
                                     !.keyOrder = Append(@, key)]
               ELSE [withMeta EXCEPT !.errors = Append(@, [key |-> key,
                                                           kind |-> single.parsed.kind])]

\* variant of validateEntry that resolves nothing after the first failure
validateEntry_StopAfterFailure(acc, entry, env, opts, w, penv) ==
    LET key == entry.key
        validator == entry.validator
    IN IF Len(acc.errors) > 0 THEN acc
       ELSE IF ~validator.valid
       THEN [acc EXCEPT !.errors = Append(@, [key |-> key, kind |-> "custom"])]
       ELSE IF isClient(w) /\ shouldSkip(key, validator, opts)
       THEN [acc EXCEPT !.metadata = (key :> [client |-> getMetadata(validator).client,
                                               autoExposed |-> Unset,
                                               serverOnly |-> TRUE]) @@ @]
       ELSE LET rawValue == Lookup(env, key)
                single == validateSingleSpec(key, validator, rawValue, opts, penv)
                withMeta == [acc EXCEPT !.metadata = (key :> single.meta) @@ @,
                                        !.parsedKeys = @ \cup {key}]
            IN IF single.parsed.ok
               THEN [withMeta EXCEPT !.result = (key :> single.parsed.value) @@ @,
                                     !.keyOrder = Append(@, key)]
               ELSE [withMeta EXCEPT !.errors = Append(@, [key |-> key,
                                                           kind |-> single.parsed.kind])]

\* validateSpecs: one iteration of the loop over Object.entries(specs),
\* acc = [result, metadata, errors, parsedKeys, keyOrder]; parsedKeys records
\* the keys whose validator was invoked (and whose raw value was read),
\* keyOrder the order in which result[key] was assigned
validateEntry(acc, entry, env, opts, w, penv) ==
    LET key == entry.key
        validator == entry.validator
    IN IF ~validator.valid
       THEN [acc EXCEPT !.errors = Append(@, [key |-> key, kind |-> "custom"])]
       ELSE IF isClient(w) /\ shouldSkip(key, validator, opts)
       THEN [acc EXCEPT !.metadata = (key :> [client |-> getMetadata(validator).client,
                                               autoExposed |-> Unset,
                                               serverOnly |-> TRUE]) @@ @]
       ELSE LET rawValue == Lookup(env, key)
                single == validateSingleSpec(key, validator, rawValue, opts, penv)
                withMeta == [acc EXCEPT !.metadata = (key :> single.meta) @@ @,
                                        !.parsedKeys = @ \cup {key}]
            IN IF single.parsed.ok
               THEN [withMeta EXCEPT !.result = (key :> single.parsed.value) @@ @,
                                     !.keyOrder = Append(@, key)]
               ELSE [withMeta EXCEPT !.errors = Append(@, [key |-> key,
                                                           kind |-> single.parsed.kind])]

RECURSIVE validateLoop(_, _, _, _, _, _, _)
validateLoop(acc, entries, i, env, opts, w, penv) ==
    IF i > Len(entries) THEN acc
    ELSE validateLoop(validateEntry(acc, entries[i], env, opts, w, penv),
                      entries, i + 1, env, opts, w, penv)

\* validateSpecs(specs, env, options)
validateSpecs(entries, env, opts, w, penv) ==
    validateLoop([result |-> EmptyMap, metadata |-> EmptyMap, errors |-> <<>>,
                  parsedKeys |-> {}, keyOrder |-> <<>>],
                 entries, 1, env, opts, w, penv)

\* variant of addEnvAccessors that takes the mode from runtime.nodeEnv alone
addEnvAccessors_RuntimeOnly(env, rawEnv, penv) ==
    LET envNodeEnv == Lookup(env, NODE_ENV)
        rawEnvNodeEnv == Lookup(rawEnv, NODE_ENV)
        nodeEnvValue == Str(nodeEnv(penv))
        nodeEnvStr == IF nodeEnvValue.t = "string" THEN nodeEnvValue.v
                      ELSE IF nodeEnvValue.t = "number" THEN ToString(nodeEnvValue.n)
                      ELSE nodeEnv(penv)
        isProdValue == nodeEnvStr = "production"
    IN [isDevelopment |-> nodeEnvStr = "development",
        isDev |-> nodeEnvStr = "development",
        isProduction |-> isProdValue,
        isProd |-> isProdValue,
        isTest |-> nodeEnvStr = "test"]

\* addEnvAccessors(env, rawEnv): the five property values it defines
addEnvAccessors(env, rawEnv, penv) ==
    LET envNodeEnv == Lookup(env, NODE_ENV)
        rawEnvNodeEnv == Lookup(rawEnv, NODE_ENV)
        nodeEnvValue == IF envNodeEnv # Undef THEN envNodeEnv
                        ELSE IF rawEnvNodeEnv # Undef THEN rawEnvNodeEnv
                        ELSE Str(nodeEnv(penv))
        nodeEnvStr == IF nodeEnvValue.t = "string" THEN nodeEnvValue.v
                      ELSE IF nodeEnvValue.t = "number" THEN ToString(nodeEnvValue.n)
                      ELSE nodeEnv(penv)
        isProdValue == nodeEnvStr = "production"
    IN [isDevelopment |-> nodeEnvStr = "development",
        isDev |-> nodeEnvStr = "development",
        isProduction |-> isProdValue,
        isProd |-> isProdValue,
        isTest |-> nodeEnvStr = "test"]

\* target[prop] for one of the five accessor properties
accessorValue(acc, prop) ==
    CASE prop = isDevelopment -> Bool(acc.isDevelopment)
      [] prop = isDev -> Bool(acc.isDev)
      [] prop = isProduction -> Bool(acc.isProduction)
      [] prop = isProd -> Bool(acc.isProd)
      [] prop = isTest -> Bool(acc.isTest)

\* the raw source the proxy closed over: process.env itself (by reference)
\* when options.env was not given, else the object that was given
rawEnvOf(px, penv) == IF px.usesProcessEnv THEN penv ELSE px.rawEnv

\* `prop in target`
propIn(prop, tgt, px) ==
    \/ prop \in DOMAIN tgt
    \/ prop \in accessorProps
    \/ (prop = clientSafePrefixesField /\ px.prefixesField.set)

\* target[prop]
targetGet(prop, tgt, acc, px) ==
    IF prop \in accessorProps THEN accessorValue(acc, prop)
    ELSE IF prop = clientSafePrefixesField /\ px.prefixesField.set
    THEN [t |-> "array", v |-> px.prefixesField.v]
    ELSE Lookup(tgt, prop)

Returned(prop, value, warned) ==
    [prop |-> prop, kind |-> "return", value |-> value, error |-> "none", warned |-> warned]
Thrown(prop, error) ==
    [prop |-> prop, kind |-> "throw", value |-> Undef, error |-> error, warned |-> FALSE]

\* createProtectiveProxy, get trap, client branch: isExposed
isExposed(meta) ==
    LET isServerOnly == IF meta.set THEN meta.v.serverOnly ELSE FALSE
        expose == IF meta.set /\ meta.v.client.set
                  THEN Declared(meta.v.client.v.expose)
                  ELSE IF meta.set THEN meta.v.autoExposed ELSE Unset
    IN ~isServerOnly /\ expose.set /\ expose.v = TRUE

\* createProtectiveProxy, get trap, client branch: the value of an exposed key
clientValue(prop, tgt, acc, meta, px, penv) ==
    LET propExists == propIn(prop, tgt, px)
        stored == IF propExists THEN targetGet(prop, tgt, acc, px) ELSE Undef
        wasExplicitlySet == prop \in DOMAIN rawEnvOf(px, penv)
        client == meta.v.client
        clientDefault == FieldValue(client.v.dflt)
        clientDevDefault == FieldValue(client.v.devDefault)
        value == IF ~wasExplicitlySet /\ meta.set /\ client.set
                 THEN IF runtimeIsDevelopment(penv) /\ clientDevDefault # Undef
                      THEN clientDevDefault
                      ELSE IF clientDefault # Undef THEN clientDefault
                      ELSE stored
                 ELSE stored
    IN IF value # Undef /\ meta.set /\ client.set /\ client.v.transform
       THEN applyTransform(value)
       ELSE value

\* variant of the get trap that applies the front-end rules in every context
get_ClientRulesEverywhere(prop, tgt, acc, md, px, w, penv) ==
    LET propExists == propIn(prop, tgt, px)
        meta == IF prop \in DOMAIN md THEN Declared(md[prop]) ELSE Unset
    IN IF prop \in inspectables THEN Returned(prop, targetGet(prop, tgt, acc, px), FALSE)
       ELSE IF prop \in accessorProps THEN Returned(prop, targetGet(prop, tgt, acc, px), FALSE)
       ELSE IF ~propExists /\ px.strict THEN Thrown(prop, "ReferenceError")
       ELSE IF isClient(w) \/ ~isClient(w)
       THEN IF ~isExposed(meta)
            THEN IF px.onClientAccessError = "throw" THEN Thrown(prop, "ClientAccessError")
                 ELSE Returned(prop, Undef,
                               px.onClientAccessError = "warn" /\ runtimeIsDevelopment(penv))
            ELSE Returned(prop, clientValue(prop, tgt, acc, meta, px, penv), FALSE)
       ELSE Returned(prop, targetGet(prop, tgt, acc, px), FALSE)

\* variant of the get trap without the strict check
get_NoStrictCheck(prop, tgt, acc, md, px, w, penv) ==
    LET propExists == propIn(prop, tgt, px)
        meta == IF prop \in DOMAIN md THEN Declared(md[prop]) ELSE Unset
    IN IF prop \in inspectables THEN Returned(prop, targetGet(prop, tgt, acc, px), FALSE)
       ELSE IF prop \in accessorProps THEN Returned(prop, targetGet(prop, tgt, acc, px), FALSE)
       ELSE IF FALSE THEN Thrown(prop, "ReferenceError")
       ELSE IF isClient(w)
       THEN IF ~isExposed(meta)
            THEN IF px.onClientAccessError = "throw" THEN Thrown(prop, "ClientAccessError")
                 ELSE Returned(prop, Undef,
                               px.onClientAccessError = "warn" /\ runtimeIsDevelopment(penv))
            ELSE Returned(prop, clientValue(prop, tgt, acc, meta, px, penv), FALSE)
       ELSE Returned(prop, targetGet(prop, tgt, acc, px), FALSE)

\* createProtectiveProxy: the get trap
get(prop, tgt, acc, md, px, w, penv) ==
    LET propExists == propIn(prop, tgt, px)
        meta == IF prop \in DOMAIN md THEN Declared(md[prop]) ELSE Unset
    IN IF prop \in inspectables THEN Returned(prop, targetGet(prop, tgt, acc, px), FALSE)
       ELSE IF prop \in accessorProps THEN Returned(prop, targetGet(prop, tgt, acc, px), FALSE)
       ELSE IF ~propExists /\ px.strict THEN Thrown(prop, "ReferenceError")
       ELSE IF isClient(w)
       THEN IF ~isExposed(meta)
            THEN IF px.onClientAccessError = "throw" THEN Thrown(prop, "ClientAccessError")
                 ELSE Returned(prop, Undef,
                               px.onClientAccessError = "warn" /\ runtimeIsDevelopment(penv))
            ELSE Returned(prop, clientValue(prop, tgt, acc, meta, px, penv), FALSE)
       ELSE Returned(prop, targetGet(prop, tgt, acc, px), FALSE)

\* createProtectiveProxy: what the returned proxy closes over.  rawEnv is
\* held by reference: process.env is read as it is at each read, another
\* object is recorded here and kept equal to the object it is
createProtectiveProxy(opts, rawEnv, isProcessEnv, penv) ==
    [strict |-> optionOr(opts.strict, TRUE),
     onClientAccessError |-> optionOr(opts.onClientAccessError, defaultClientAccessError(penv)),
     usesProcessEnv |-> isProcessEnv,
     rawEnv |-> IF isProcessEnv THEN EmptyMap ELSE rawEnv,
     prefixesField |-> opts.clientSafePrefixes]

\* variant of the descriptors in which the accessors are enumerable
getOwnPropertyDescriptor_EnumerableAccessors(prop, tgt, acc, px) ==
    IF prop \in accessorProps
    THEN Declared([value |-> accessorValue(acc, prop), enumerable |-> TRUE,
                   writable |-> FALSE, configurable |-> FALSE])
    ELSE IF prop = clientSafePrefixesField /\ px.prefixesField.set
    THEN Declared([value |-> [t |-> "array", v |-> px.prefixesField.v], enumerable |-> FALSE,
                   writable |-> FALSE, configurable |-> FALSE])
    ELSE IF prop \in DOMAIN tgt
    THEN Declared([value |-> tgt[prop], enumerable |-> TRUE,
                   writable |-> TRUE, configurable |-> TRUE])
    ELSE Unset

\* Reflect.getOwnPropertyDescriptor(target, prop): Unset when prop is not an
\* own property; result[key] = value creates an enumerable, writable,
\* configurable property; Object.defineProperties without the attributes
\* (the accessors) and the prefixes field create one with all three false
getOwnPropertyDescriptor(prop, tgt, acc, px) ==
    IF prop \in accessorProps
    THEN Declared([value |-> accessorValue(acc, prop), enumerable |-> FALSE,
                   writable |-> FALSE, configurable |-> FALSE])
    ELSE IF prop = clientSafePrefixesField /\ px.prefixesField.set
    THEN Declared([value |-> [t |-> "array", v |-> px.prefixesField.v], enumerable |-> FALSE,
                   writable |-> FALSE, configurable |-> FALSE])
    ELSE IF prop \in DOMAIN tgt
    THEN Declared([value |-> tgt[prop], enumerable |-> TRUE,
                   writable |-> TRUE, configurable |-> TRUE])
    ELSE Unset

\* the outcome of a write or delete request on the proxy; a message is its
\* fixed text followed by String(prop)
OpReturned(op, prop, value) ==
    [op |-> op, prop |-> prop, kind |-> "return", value |-> value, error |-> "none",
     message |-> [text |-> "", name |-> <<>>]]
OpThrown(op, prop, error, message) ==
    [op |-> op, prop |-> prop, kind |-> "throw", value |-> FALSE, error |-> error,
     message |-> message]

\* variant of the set trap that performs the assignment before it throws
set_Assigns(prop, tgt) ==
    [outcome |-> OpThrown("set", prop, "TypeError",
                          [text |-> "[zenv] Attempt to mutate environment value: ", name |-> prop]),
     target |-> (prop :> Str("assigned")) @@ tgt]

\* set trap: the outcome and the target it leaves
set(prop, tgt) ==
    [outcome |-> OpThrown("set", prop, "TypeError",
                          [text |-> "[zenv] Attempt to mutate environment value: ", name |-> prop]),
     target |-> tgt]

\* defineProperty trap: the outcome and the target it leaves
defineProperty(prop, tgt) ==
    [outcome |-> OpThrown("defineProperty", prop, "TypeError",
                          [text |-> "[zenv] Attempt to define property on environment: ", name |-> prop]),
     target |-> tgt]

\* deleteProperty trap: returns true and removes nothing.  The proxy then
\* checks the answer against the target: reporting a non-configurable own
\* property of the target as deleted is a TypeError.
deleteProperty(prop, tgt, acc, px) ==
    LET trapResult == TRUE
        targetDesc == getOwnPropertyDescriptor(prop, tgt, acc, px)
    IN [outcome |-> IF trapResult /\ targetDesc.set /\ ~targetDesc.v.configurable
                    THEN OpThrown("deleteProperty", prop, "TypeError",
                                  [text |-> "'deleteProperty' on proxy: trap returned truish for a non-configurable property",
                                   name |-> prop])
                    ELSE OpReturned("deleteProperty", prop, trapResult),
        target |-> tgt]

\* ownKeys trap: Reflect.ownKeys(target)
ownKeys(tk) == tk

\* Object.keys(env): the own keys whose descriptor is enumerable
ObjectKeys(tk, tgt, acc, px) ==
    SelectSeq(ownKeys(tk),
              LAMBDA k : getOwnPropertyDescriptor(k, tgt, acc, px).set
                         /\ getOwnPropertyDescriptor(k, tgt, acc, px).v.enumerable)

\* Object.entries(env) (and values, spread): each enumerable key read
\* through the get trap; the first read that throws ends the enumeration
ObjectEntries(tk, tgt, acc, md, px, w, penv) ==
    LET keys == ObjectKeys(tk, tgt, acc, px)
        reads == [i \in 1..Len(keys) |-> get(keys[i], tgt, acc, md, px, w, penv)]
    IN IF \E i \in 1..Len(keys) : reads[i].kind = "throw"
       THEN [kind |-> "throw",
             error |-> reads[CHOOSE i \in 1..Len(keys) :
                                /\ reads[i].kind = "throw"
                                /\ \A j \in 1..(i - 1) : reads[j].kind # "throw"].error,
             v |-> <<>>]
       ELSE [kind |-> "return", error |-> "none",
             v |-> [i \in 1..Len(keys) |-> <<keys[i], reads[i].value>>]]

\* the own property names of the object zenv wraps: the resolved keys in
\* the order result[key] was assigned, the five accessors in the order
\* addEnvAccessors defines them, then the prefixes field when it is defined
ownKeysOf(keyOrder, opts) ==
    keyOrder \o <<isDevelopment, isDev, isProduction, isProd, isTest>>
        \o (IF opts.clientSafePrefixes.set THEN <<clientSafePrefixesField>> ELSE <<>>)

\* console.error(text)
ConsoleError(text) == [ev |-> "console.error", text |-> text]

\* variant of reportErrors that lists every failure as invalid
reportErrors_AllInvalid(errs, onError, pd) ==
    <<ConsoleError([invalid |-> errs, missing |-> <<>>])>>
    \o (IF onError = "exit" /\ isNode(pd)
        THEN <<ConsoleError([notice |-> "Exiting with error code 1"])>>
        ELSE <<>>)

\* reportErrors(errors, onError): the console.error calls it makes
reportErrors(errs, onError, pd) ==
    <<ConsoleError([invalid |-> SelectSeq(errs, LAMBDA e : e.kind # "missing"),
                    missing |-> SelectSeq(errs, LAMBDA e : e.kind = "missing")])>>
    \o (IF onError = "exit" /\ isNode(pd)
        THEN <<ConsoleError([notice |-> "Exiting with error code 1"])>>
        ELSE <<>>)

\* variant of zenv whose ZenvError carries the first failure only
zenvOutcome_ThrowsFirstFailure(errs, opts, env, pd) ==
    LET onError == optionOr(opts.onError, defaultErrorBehavior(pd))
        failed == Len(errs) > 0
        reports == IF ~failed THEN <<>>
                   ELSE IF opts.reporter.set
                   THEN <<[ev |-> "reporter", errors |-> errs, env |-> env]>>
                   ELSE reportErrors(errs, onError, pd)
    IN IF failed /\ onError = "throw"
       THEN [pc |-> "thrown",
             log |-> reports \o <<[ev |-> "throw", error |-> "ZenvError",
                                  zodErrors |-> <<errs[1]>>]>>]
       ELSE IF failed /\ onError = "exit" /\ isNode(pd)
       THEN [pc |-> "exited", log |-> reports \o <<[ev |-> "exit", code |-> 1]>>]
       ELSE [pc |-> "returned", log |-> reports \o <<[ev |-> "return"]>>]

\* variant of zenv that emits the default report after calling the reporter
zenvOutcome_ReportsTwice(errs, opts, env, pd) ==
    LET onError == optionOr(opts.onError, defaultErrorBehavior(pd))
        failed == Len(errs) > 0
        reports == IF ~failed THEN <<>>
                   ELSE IF opts.reporter.set
                   THEN <<[ev |-> "reporter", errors |-> errs, env |-> env]>>
                        \o reportErrors(errs, onError, pd)
                   ELSE reportErrors(errs, onError, pd)
    IN IF failed /\ onError = "throw"
       THEN [pc |-> "thrown",
             log |-> reports \o <<[ev |-> "throw", error |-> "ZenvError", zodErrors |-> errs]>>]
       ELSE IF failed /\ onError = "exit" /\ isNode(pd)
       THEN [pc |-> "exited", log |-> reports \o <<[ev |-> "exit", code |-> 1]>>]
       ELSE [pc |-> "returned", log |-> reports \o <<[ev |-> "return"]>>]

\* zenv after validateSpecs: what it emits, in order, and how the call ends
zenvOutcome(errs, opts, env, pd) ==
    LET onError == optionOr(opts.onError, defaultErrorBehavior(pd))
        failed == Len(errs) > 0
        reports == IF ~failed THEN <<>>
                   ELSE IF opts.reporter.set
                   THEN <<[ev |-> "reporter", errors |-> errs, env |-> env]>>
                   ELSE reportErrors(errs, onError, pd)
    IN IF failed /\ onError = "throw"
       THEN [pc |-> "thrown",
             log |-> reports \o <<[ev |-> "throw", error |-> "ZenvError", zodErrors |-> errs]>>]
       ELSE IF failed /\ onError = "exit" /\ isNode(pd)
       THEN [pc |-> "exited", log |-> reports \o <<[ev |-> "exit", code |-> 1]>>]
       ELSE [pc |-> "returned", log |-> reports \o <<[ev |-> "return"]>>]

NoProxy ==
    [strict |-> TRUE, onClientAccessError |-> "ignore", usesProcessEnv |-> TRUE,
     rawEnv |-> EmptyMap, prefixesField |-> Unset]
NoAccessors ==
    [isDevelopment |-> FALSE, isDev |-> FALSE, isProduction |-> FALSE,
     isProd |-> FALSE, isTest |-> FALSE]
NoGet == [prop |-> <<>>, kind |-> "none", value |-> Undef, error |-> "none", warned |-> FALSE]
NoOp == [op |-> "none"]

-----------------------------------------------------------------------------
(* client-inject.ts.  A string is the sequence of its characters; the script *)
(* is computed character by character: JSON.stringify, the replacement of    *)
(* every </script> and the template around it.                               *)

upperCase == <<"A", "B", "C", "D", "E", "F", "G", "H", "I", "J", "K", "L", "M",
               "N", "O", "P", "Q", "R", "S", "T", "U", "V", "W", "X", "Y", "Z">>
lowerCase == <<"a", "b", "c", "d", "e", "f", "g", "h", "i", "j", "k", "l", "m",
               "n", "o", "p", "q", "r", "s", "t", "u", "v", "w", "x", "y", "z">>
digitChars == <<"0", "1", "2", "3", "4", "5", "6", "7", "8", "9">>

\* the `i` flag of the regular expression: letters compared in lower case
upperToLower ==
    [c \in {upperCase[i] : i \in 1..26} |-> lowerCase[CHOOSE i \in 1..26 : upperCase[i] = c]]
toLowerCase(c) == IF c \in DOMAIN upperToLower THEN upperToLower[c] ELSE c

\* the text the regular expression /<\/script>/gi matches
closeTag == <<"<", "/", "s", "c", "r", "i", "p", "t", ">">>

\* `window.__ZENV_CLIENT__ = `, the head of the template literal
assignmentHead ==
    <<"w", "i", "n", "d", "o", "w", ".", "_", "_", "Z", "E", "N", "V", "_", "C", "L", "I",
      "E", "N", "T", "_", "_", " ", "=", " ">>

\* String(n) of a non-negative integer
RECURSIVE numberToString(_)
numberToString(n) ==
    IF n < 10 THEN <<digitChars[n + 1]>>
    ELSE numberToString(n \div 10) \o <<digitChars[(n % 10) + 1]>>

\* JSON.stringify of a string: quoted, with " and \ escaped
RECURSIVE quoteFrom(_, _)
quoteFrom(str, i) ==
    IF i > Len(str) THEN <<>>
    ELSE (IF str[i] \in {"\"", "\\"} THEN <<"\\", str[i]>> ELSE <<str[i]>>)
         \o quoteFrom(str, i + 1)
quote(str) == <<"\"">> \o quoteFrom(str, 1) \o <<"\"">>

\* JSON.stringify of a string, number or boolean
stringifyValue(value) ==
    CASE value.t = "string" -> quote(value.v)
      [] value.t = "number" -> numberToString(value.n)
      [] value.t = "boolean" -> IF value.b THEN <<"t", "r", "u", "e">>
                                ELSE <<"f", "a", "l", "s", "e">>

\* JSON.stringify of a plain object given as its pairs in property order
RECURSIVE stringifyMembers(_, _)
stringifyMembers(pairs, i) ==
    IF i > Len(pairs) THEN <<>>
    ELSE (IF i > 1 THEN <<",">> ELSE <<>>)
         \o quote(pairs[i][1]) \o <<":">> \o stringifyValue(pairs[i][2])
         \o stringifyMembers(pairs, i + 1)
JSONstringify(pairs) == <<"{">> \o stringifyMembers(pairs, 1) \o <<"}">>

\* whether /<\/script>/i matches at position i
matchesCloseTag(text, i) ==
    /\ i + Len(closeTag) - 1 <= Len(text)
    /\ \A j \in 1..Len(closeTag) : toLowerCase(text[i + j - 1]) = closeTag[j]

\* variant of the replacement that drops the slash of the tag
RECURSIVE replaceCloseTags_DropsSlash(_, _)
replaceCloseTags_DropsSlash(text, i) ==
    IF i > Len(text) THEN <<>>
    ELSE IF matchesCloseTag(text, i)
    THEN <<text[i]>> \o SubSeq(text, i + 2, i + Len(closeTag) - 1)
         \o replaceCloseTags_DropsSlash(text, i + Len(closeTag))
    ELSE <<text[i]>> \o replaceCloseTags_DropsSlash(text, i + 1)

\* jsonStr.replace(/<\/script>/gi, (match) => match.replace("/", "\\/")):
\* each match, left to right, keeps its letters and gets a backslash before
\* its slash
RECURSIVE replaceCloseTags(_, _)
replaceCloseTags(text, i) ==
    IF i > Len(text) THEN <<>>
    ELSE IF matchesCloseTag(text, i)
    THEN <<text[i], "\\">> \o SubSeq(text, i + 1, i + Len(closeTag) - 1)
         \o replaceCloseTags(text, i + Len(closeTag))
    ELSE <<text[i]>> \o replaceCloseTags(text, i + 1)

\* `window.__ZENV_CLIENT__ = ${escapedJson};`
scriptOf(pairs) == assignmentHead \o replaceCloseTags(JSONstringify(pairs), 1) \o <<";">>

\* getClientEnvScript, backend path: prefixes
effectivePrefixes(clientSafePrefixes, retained) ==
    IF clientSafePrefixes.set THEN clientSafePrefixes.v
    ELSE IF retained # Undef THEN retained.v
    ELSE <<>>

\* variant of clientEnvOf that tests the prefix anywhere in the key
clientEnvOf_PrefixAnywhere(prefixes, tk, tgt, acc, md, px, w, penv) ==
    LET keys == ObjectKeys(tk, tgt, acc, px)
        included == SelectSeq(keys, LAMBDA key :
                        /\ Len(prefixes) > 0
                        /\ \E p \in 1..Len(prefixes), at \in 0..Len(key) :
                              StartsWith(SubSeq(key, at + 1, Len(key)), prefixes[p])
                        /\ get(key, tgt, acc, md, px, w, penv).value # Undef)
    IN [i \in 1..Len(included) |->
           <<included[i], get(included[i], tgt, acc, md, px, w, penv).value>>]

\* getClientEnvScript, backend path: clientEnv, the pairs of the enumerable
\* keys some prefix matches and whose value, read through the proxy, is not
\* undefined, in key order
clientEnvOf(prefixes, tk, tgt, acc, md, px, w, penv) ==
    LET keys == ObjectKeys(tk, tgt, acc, px)
        included == SelectSeq(keys, LAMBDA key :
                        /\ Len(prefixes) > 0
                        /\ startsWithAny(key, prefixes)
                        /\ get(key, tgt, acc, md, px, w, penv).value # Undef)
    IN [i \in 1..Len(included) |->
           <<included[i], get(included[i], tgt, acc, md, px, w, penv).value>>]

\* getClientEnvScript(env, clientSafePrefixes): the string it returns, or the
\* error a read of env raised
getClientEnvScript(clientSafePrefixes, tk, tgt, acc, md, px, w, penv, zc) ==
    IF isClient(w)
    THEN [kind |-> "return", error |-> "none",
          script |-> IF zc.set THEN scriptOf(zc.v) ELSE <<>>]
    ELSE LET retained == get(clientSafePrefixesField, tgt, acc, md, px, w, penv)
             prefixes == effectivePrefixes(clientSafePrefixes, retained.value)
             keys == ObjectKeys(tk, tgt, acc, px)
             thrown == {i \in 1..Len(keys) :
                           /\ Len(prefixes) > 0
                           /\ startsWithAny(keys[i], prefixes)
                           /\ get(keys[i], tgt, acc, md, px, w, penv).kind = "throw"}
         IN IF ~clientSafePrefixes.set /\ retained.kind = "throw"
            THEN [kind |-> "throw", error |-> retained.error, script |-> <<>>]
            ELSE IF thrown # {}
            THEN [kind |-> "throw",
                  error |-> get(keys[CHOOSE i \in thrown : \A j \in thrown : i <= j],
                                tgt, acc, md, px, w, penv).error,
                  script |-> <<>>]
            ELSE [kind |-> "return", error |-> "none",
                  script |-> scriptOf(clientEnvOf(prefixes, tk, tgt, acc, md, px, w, penv))]

\* a JSON string from the character after its opening quote: its characters
\* and the position after its closing quote
RECURSIVE parseString(_, _, _)
parseString(text, i, chars) ==
    IF text[i] = "\"" THEN [v |-> chars, next |-> i + 1]
    ELSE IF text[i] = "\\" THEN parseString(text, i + 2, Append(chars, text[i + 1]))
    ELSE parseString(text, i + 1, Append(chars, text[i]))

RECURSIVE parseNumber(_, _, _)
parseNumber(text, i, n) ==
    IF i <= Len(text) /\ \E d \in 1..10 : digitChars[d] = text[i]
    THEN parseNumber(text, i + 1, 10 * n + (CHOOSE d \in 1..10 : digitChars[d] = text[i]) - 1)
    ELSE [v |-> n, next |-> i]

parseValue(text, i) ==
    IF text[i] = "\"" THEN LET r == parseString(text, i + 1, <<>>)
                           IN [v |-> Str(r.v), next |-> r.next]
    ELSE IF text[i] = "t" THEN [v |-> Bool(TRUE), next |-> i + 4]
    ELSE IF text[i] = "f" THEN [v |-> Bool(FALSE), next |-> i + 5]
    ELSE LET r == parseNumber(text, i, 0) IN [v |-> Num(r.v), next |-> r.next]

RECURSIVE parseMembers(_, _, _)
parseMembers(text, i, pairs) ==
    LET key == parseString(text, i + 1, <<>>)
        value == parseValue(text, key.next + 1)
        more == Append(pairs, <<key.v, value.v>>)
    IN IF text[value.next] = "," THEN parseMembers(text, value.next + 1, more)
       ELSE more

\* the object an object literal of strings, numbers and booleans denotes
\* (what the browser assigns when it runs the script; JSON.parse of the
\* literal), as its pairs in property order
JSONparse(text) == IF text[2] = "}" THEN <<>> ELSE parseMembers(text, 2, <<>>)

\* the literal of a script: what follows the head, without the final `;`
literalOf(script) == SubSeq(script, Len(assignmentHead) + 1, Len(script) - 1)

-----------------------------------------------------------------------------
(* Actions *)

\* variant of zenvCall that hands back the result of an earlier call
zenvCall_ReusesResult ==
    /\ LET env == optionOr(options.env,
                           runtimeEnv(window, ZENV_CLIENT, processDefined, processEnv))
           isProcessEnv == ~options.env.set
                           /\ runtimeEnvIsProcessEnv(window, ZENV_CLIENT, processDefined)
           r == validateSpecs(specs, env, options, window, processEnv)
           out == zenvOutcome(r.errors, options, env, processDefined)
       IN /\ resolvedAt' = [isClient |-> isClient(window), penv |-> processEnv,
                            source |-> env]
          /\ IF pc = "returned"
             THEN UNCHANGED <<errors, metadata, validated, pc, log, target, targetKeys,
                              accessors, proxy>>
             ELSE /\ errors' = r.errors
                  /\ metadata' = r.metadata
                  /\ validated' = r.parsedKeys
                  /\ pc' = out.pc
                  /\ log' = out.log
                  /\ IF out.pc = "returned"
                     THEN /\ target' = r.result
                          /\ targetKeys' = ownKeysOf(r.keyOrder, options)
                          /\ accessors' = addEnvAccessors(r.result, env, processEnv)
                          /\ proxy' = createProtectiveProxy(options, env, isProcessEnv,
                                                            processEnv)
                     ELSE /\ target' = EmptyMap
                          /\ targetKeys' = <<>>
                          /\ accessors' = NoAccessors
                          /\ proxy' = NoProxy
    /\ lastGet' = NoGet
    /\ lastOp' = NoOp
    /\ UNCHANGED <<window, processEnv, specs, options, processDefined, ZENV_CLIENT>>

\* one call zenv(specs, options): nothing of an earlier call is read
zenvCall ==
    /\ LET env == optionOr(options.env,
                           runtimeEnv(window, ZENV_CLIENT, processDefined, processEnv))
           isProcessEnv == ~options.env.set
                           /\ runtimeEnvIsProcessEnv(window, ZENV_CLIENT, processDefined)
           r == validateSpecs(specs, env, options, window, processEnv)
           out == zenvOutcome(r.errors, options, env, processDefined)
       IN /\ errors' = r.errors
          /\ metadata' = r.metadata
          /\ validated' = r.parsedKeys
          /\ resolvedAt' = [isClient |-> isClient(window), penv |-> processEnv,
                            source |-> env]
          /\ pc' = out.pc
          /\ log' = out.log
          /\ IF out.pc = "returned"
             THEN /\ target' = r.result
                  /\ targetKeys' = ownKeysOf(r.keyOrder, options)
                  /\ accessors' = addEnvAccessors(r.result, env, processEnv)
                  /\ proxy' = createProtectiveProxy(options, env, isProcessEnv, processEnv)
             ELSE /\ target' = EmptyMap
                  /\ targetKeys' = <<>>
                  /\ accessors' = NoAccessors
                  /\ proxy' = NoProxy
    /\ lastGet' = NoGet
    /\ lastOp' = NoOp
    /\ UNCHANGED <<window, processEnv, specs, options, processDefined, ZENV_CLIENT>>

\* zenv(specs, options), the first call
Zenv ==
    /\ pc = "init"
    /\ zenvCall
    /\ UNCHANGED previous

\* env[prop] on the result of zenv
Get(prop) ==
    /\ pc = "returned"
    /\ lastGet' = get(prop, target, accessors, metadata, proxy, window, processEnv)
    /\ lastOp' = NoOp
    /\ UNCHANGED <<window, processEnv, specs, options, pc, target, accessors,
                   metadata, errors, proxy, resolvedAt, validated, processDefined,
                   targetKeys, log>>
    /\ UNCHANGED <<ZENV_CLIENT, previous>>

\* env[prop] = value on the result of zenv
Set(prop) ==
    /\ pc = "returned"
    /\ LET r == set(prop, target)
       IN lastOp' = r.outcome /\ target' = r.target
    /\ lastGet' = NoGet
    /\ UNCHANGED <<window, processEnv, specs, options, pc, accessors,
                   metadata, errors, proxy, resolvedAt, validated, processDefined,
                   targetKeys, log>>
    /\ UNCHANGED <<ZENV_CLIENT, previous>>

\* Object.defineProperty(env, prop, descriptor) on the result of zenv
DefineProperty(prop) ==
    /\ pc = "returned"
    /\ LET r == defineProperty(prop, target)
       IN lastOp' = r.outcome /\ target' = r.target
    /\ lastGet' = NoGet
    /\ UNCHANGED <<window, processEnv, specs, options, pc, accessors,
                   metadata, errors, proxy, resolvedAt, validated, processDefined,
                   targetKeys, log>>
    /\ UNCHANGED <<ZENV_CLIENT, previous>>

\* delete env[prop] on the result of zenv
DeleteProperty(prop) ==
    /\ pc = "returned"
    /\ LET r == deleteProperty(prop, target, accessors, proxy)
       IN lastOp' = r.outcome /\ target' = r.target
    /\ lastGet' = NoGet
    /\ UNCHANGED <<window, processEnv, specs, options, pc, accessors,
                   metadata, errors, proxy, resolvedAt, validated, processDefined,
                   targetKeys, log>>
    /\ UNCHANGED <<ZENV_CLIENT, previous>>

\* Object.keys(env), Object.getOwnPropertyNames(env) and Object.entries(env)
Enumerate ==
    /\ pc = "returned"
    /\ lastOp' = [op |-> "enumerate",
                  keys |-> ObjectKeys(targetKeys, target, accessors, proxy),
                  ownNames |-> ownKeys(targetKeys),
                  entries |-> ObjectEntries(targetKeys, target, accessors, metadata, proxy,
                                            window, processEnv)]
    /\ lastGet' = NoGet
    /\ UNCHANGED <<window, processEnv, specs, options, pc, target, accessors,
                   metadata, errors, proxy, resolvedAt, validated, processDefined,
                   targetKeys, log>>
    /\ UNCHANGED <<ZENV_CLIENT, previous>>

\* the execution context changes (a test mocks it; the same module is
\* evaluated on the server and then in the browser)
SetWindow(w) ==
    /\ w # window
    /\ window' = w
    /\ lastGet' = NoGet
    /\ lastOp' = NoOp
    /\ UNCHANGED <<processEnv, specs, options, pc, target, accessors, metadata,
                   errors, proxy, resolvedAt, validated, processDefined, targetKeys, log>>
    /\ UNCHANGED <<ZENV_CLIENT, previous>>

\* process.env.NODE_ENV is assigned or deleted
SetNodeEnv(mode) ==
    /\ processDefined
    /\ processEnv' = IF mode.set THEN (NODE_ENV :> Str(mode.v)) @@ processEnv
                     ELSE [k \in DOMAIN processEnv \ {NODE_ENV} |-> processEnv[k]]
    /\ processEnv' # processEnv
    /\ lastGet' = NoGet
    /\ lastOp' = NoOp
    /\ UNCHANGED <<window, specs, options, pc, target, accessors, metadata,
                   errors, proxy, resolvedAt, validated, processDefined, targetKeys, log>>
    /\ UNCHANGED <<ZENV_CLIENT, previous>>

\* what the latest zenv call left, kept when another call follows
Outcome ==
    [pc |-> pc, target |-> target, targetKeys |-> targetKeys, errors |-> errors,
     isClient |-> resolvedAt.isClient, penv |-> resolvedAt.penv, source |-> resolvedAt.source]

\* zenv(specs, options) called again with the same arguments
ZenvAgain ==
    /\ pc \in {"returned", "thrown"}
    /\ ~previous.set
    /\ previous' = Declared(Outcome)
    /\ zenvCall

\* getClientEnvScript(env, clientSafePrefixes) on the result of zenv
GetClientEnvScript(clientSafePrefixes) ==
    /\ pc = "returned"
    /\ LET r == getClientEnvScript(clientSafePrefixes, targetKeys, target, accessors, metadata,
                                   proxy, window, processEnv, ZENV_CLIENT)
       IN lastOp' = [op |-> "getClientEnvScript", clientSafePrefixes |-> clientSafePrefixes,
                     kind |-> r.kind, error |-> r.error, script |-> r.script]
    /\ lastGet' = NoGet
    /\ UNCHANGED <<window, processEnv, specs, options, pc, target, accessors,
                   metadata, errors, proxy, resolvedAt, validated, processDefined,
                   targetKeys, log, ZENV_CLIENT, previous>>

\* the page the server rendered is loaded: the browser runs the script, which
\* assigns window.__ZENV_CLIENT__, and the module is evaluated anew (the same
\* spec and options; nothing of the server's call but the script arrives)
InjectScript(pd) ==
    /\ pc = "returned"
    /\ ~isClient(window)
    /\ lastOp.op = "getClientEnvScript"
    /\ lastOp.kind = "return"
    /\ window' = TRUE
    /\ ZENV_CLIENT' = Declared(JSONparse(literalOf(lastOp.script)))
    /\ processDefined' = pd
    /\ processEnv' = IF pd THEN processEnv ELSE EmptyMap
    /\ previous' = Declared(Outcome)
    /\ pc' = "init"
    /\ target' = EmptyMap
    /\ accessors' = NoAccessors
    /\ metadata' = EmptyMap
    /\ errors' = <<>>
    /\ proxy' = NoProxy
    /\ lastGet' = NoGet
    /\ resolvedAt' = [isClient |-> FALSE, penv |-> EmptyMap, source |-> EmptyMap]
    /\ validated' = {}
    /\ targetKeys' = <<>>
    /\ log' = <<>>
    /\ lastOp' = NoOp
    /\ UNCHANGED <<specs, options>>

\* obj[key] = value, or delete obj[key] when change is Unset
Mutated(obj, key, change) ==
    IF change.set THEN (key :> change.v) @@ obj
    ELSE [k \in DOMAIN obj \ {key} |-> obj[k]]

\* the caller changes the object zenv resolved from: the object given as
\* options.env, else process.env; the proxy holds the same object
MutateSource(key, change) ==
    /\ pc \in {"returned", "thrown"}
    /\ ~previous.set
    /\ \/ /\ options.env.set
          /\ options' = [options EXCEPT !.env = Declared(Mutated(@.v, key, change))]
          /\ options' # options
          /\ proxy' = IF pc = "returned"
                      THEN [proxy EXCEPT !.rawEnv = Mutated(@, key, change)]
                      ELSE proxy
          /\ UNCHANGED processEnv
       \/ /\ ~options.env.set
          /\ runtimeEnvIsProcessEnv(resolvedAt.isClient, ZENV_CLIENT, processDefined)
          /\ processEnv' = Mutated(processEnv, key, change)
          /\ processEnv' # processEnv
          /\ UNCHANGED <<options, proxy>>
    /\ lastGet' = NoGet
    /\ lastOp' = NoOp
    /\ UNCHANGED <<window, specs, pc, target, accessors, metadata, errors, resolvedAt,
                   validated, processDefined, targetKeys, log, ZENV_CLIENT, previous>>

-----------------------------------------------------------------------------
(* The calls explored.  A world is one zenv call about to be made: its spec, *)
(* its options and the process environment it starts from.                   *)

Modes == {Unset, Declared("development"), Declared("test"), Declared("staging")}

Validator(choices, dflt, devDefault, testDefault, client) ==
    [valid |-> TRUE, choices |-> choices, dflt |-> dflt, devDefault |-> devDefault,
     testDefault |-> testDefault, client |-> client]

\* str()
Required(client) == Validator(Unset, Unset, Unset, Unset, client)

ClientConfig(expose, transform, dflt, devDefault) ==
    Declared([expose |-> expose, transform |-> transform, dflt |-> dflt,
              devDefault |-> devDefault])

Options(strict, onClientAccessError, prefixes, env) ==
    [strict |-> strict, onClientAccessError |-> onClientAccessError,
     clientSafePrefixes |-> IF prefixes THEN Declared(<<<<"P", "U", "B", "_">>>>) ELSE Unset,
     serverOnlyPrefixes |-> IF prefixes THEN Declared(<<PUB_S, <<"S">>, <<"t", "h">>>>)
                           ELSE Unset,
     onError |-> Declared("return"),
     reporter |-> Unset,
     env |-> env]

\* a source holding `key` (when present) and nothing else
Source(key, present) == IF present THEN (key :> Str("raw")) ELSE EmptyMap

\* exposure and access policy: one key of each prefix class, every client
\* exposure declaration, every strictness and access-violation policy
\* (without configured prefixes the keys differ only in being on the proxy's
\* pass-through list or not, so one of each kind is kept)
ExposureWorlds ==
    { [specs |-> <<[key |-> kp[1], validator |-> Required(client)]>>,
       options |-> Options(strict, policy, kp[2], Unset),
       processEnv |-> Source(kp[1], present)] :
        kp \in {<<PUB_A, TRUE>>, <<PUB_S, TRUE>>, <<SEC, TRUE>>, <<then, TRUE>>,
                <<SEC, FALSE>>, <<then, FALSE>>},
        client \in {Unset, ClientConfig(TRUE, FALSE, Unset, Unset),
                    ClientConfig(FALSE, FALSE, Unset, Unset)},
        strict \in {Unset, Declared(FALSE)},
        policy \in {Unset, Declared("throw"), Declared("warn"), Declared("ignore")},
        present \in BOOLEAN }

\* client-side defaults and transform: every client configuration, a key
\* exposed by prefix, one exposed by declaration and one on the proxy's
\* pass-through list, stored values from the source, from a default and
\* undefined, and a source that holds the key, holds it with the value
\* undefined, or does not hold it
ClientWorlds ==
    { [specs |-> <<[key |-> kp[1],
                    validator |-> Validator(Unset, ds[1], Unset, Unset, client)]>>,
       options |-> Options(Declared(FALSE), Declared("ignore"), kp[2],
                           IF ds[2] = "undefined" THEN Declared(kp[1] :> Undef) ELSE Unset),
       processEnv |-> Source(kp[1], ds[2] = "present")] :
        kp \in {<<PUB_A, TRUE>>, <<SEC, FALSE>>, <<then, FALSE>>},
        client \in {Unset} \cup
                   { ClientConfig(expose, transform, cd, cdd) :
                        expose \in BOOLEAN, transform \in BOOLEAN,
                        cd \in {Unset, Declared(Str("clientDefault"))},
                        cdd \in {Unset, Declared(Str("clientDevDefault"))} },
        ds \in ({Unset, Declared(Str("default")), Declared(Undef)} \X {"absent", "undefined"})
                  \cup {<<Unset, "present">>} }

\* default precedence and the mode accessors: every combination of the three
\* default declarations (omitted, declared undefined, declared with a value),
\* for NODE_ENV itself and for another key, from process.env and from a
\* source given in the options
DefaultsWorlds ==
    { [specs |-> <<[key |-> ks[1],
                    validator |-> Validator(Unset, dflt, devDefault, testDefault, client)]>>,
       options |-> Options(Unset, Unset, FALSE, ks[2]),
       processEnv |-> Source(SEC, ks[3])] :
        dflt \in {Unset, Declared(Undef), Declared(Str("production"))},
        devDefault \in {Unset, Declared(Undef), Declared(Str("development"))},
        testDefault \in {Unset, Declared(Undef), Declared(Str("staging"))},
        client \in {Unset, ClientConfig(TRUE, FALSE, Unset, Unset)},
        ks \in ({NODE_ENV, SEC} \X {Unset, Declared(EmptyMap), Declared(NODE_ENV :> Str("test"))}
                                \X {FALSE})
                 \cup {<<SEC, Unset, TRUE>>} }
    \cup
    { [specs |-> <<[key |-> NODE_ENV,
                    validator |-> Validator(Declared({Str("development"), Str("production"),
                                                      Str("test")}),
                                            dflt, Unset, Unset, Unset)]>>,
       options |-> Options(Unset, Unset, FALSE, Unset),
       processEnv |-> EmptyMap] :
        dflt \in {Unset, Declared(Str("production"))} }

\* a spec entry that is not a validator (isZodSchema rejects it)
NotAValidator == [Required(Unset) EXCEPT !.valid = FALSE]

\* the entries the two-key specs are made of: a required key, an entry that
\* is not a validator, a required exposed key with a client default, and
\* NODE_ENV restricted to the three known modes
ErrorEntries ==
    { [key |-> SEC, validator |-> Required(Unset)],
      [key |-> SEC, validator |-> NotAValidator],
      [key |-> PUB_A,
       validator |-> Required(ClientConfig(TRUE, FALSE, Declared(Str("clientDefault")), Unset))],
      [key |-> NODE_ENV,
       validator |-> Validator(Declared({Str("development"), Str("production"), Str("test")}),
                               Unset, Unset, Unset, Unset)] }

ErrorSpecs ==
    { <<pair[1], pair[2]>> :
        pair \in {pr \in ErrorEntries \X ErrorEntries : pr[1].key # pr[2].key} }

\* failure handling: every two-key spec under every failure policy, with and
\* without a reporter, and (policy 'return') non-strict with and without
\* configured prefixes; the source holds both keys or none
ErrorWorlds ==
    { [specs |-> sp,
       options |-> [Options(Unset, Unset, TRUE, Unset)
                       EXCEPT !.onError = onError, !.reporter = reporter],
       processEnv |-> IF present THEN Source(SEC, TRUE) @@ Source(PUB_A, TRUE) ELSE EmptyMap] :
        sp \in ErrorSpecs,
        onError \in {Unset, Declared("throw"), Declared("exit"), Declared("return")},
        reporter \in {Unset, Declared("reporter")},
        present \in BOOLEAN }
    \cup
    { [specs |-> sp,
       options |-> Options(Declared(FALSE), Unset, prefixes, Unset),
       processEnv |-> IF present THEN Source(SEC, TRUE) @@ Source(PUB_A, TRUE) ELSE EmptyMap] :
        sp \in ErrorSpecs,
        prefixes \in BOOLEAN,
        present \in BOOLEAN }

InitFrom(worlds) ==
    /\ \E world \in worlds, mode \in Modes :
          /\ specs = world.specs
          /\ options = world.options
          /\ processEnv = IF mode.set THEN (NODE_ENV :> Str(mode.v)) @@ world.processEnv
                          ELSE world.processEnv
    /\ window \in BOOLEAN
    /\ pc = "init"
    /\ target = EmptyMap
    /\ accessors = NoAccessors
    /\ metadata = EmptyMap
    /\ errors = <<>>
    /\ proxy = NoProxy
    /\ lastGet = NoGet
    /\ resolvedAt = [isClient |-> FALSE, penv |-> EmptyMap, source |-> EmptyMap]
    /\ ZENV_CLIENT = Unset
    /\ previous = Unset
    /\ validated = {}
    /\ processDefined = TRUE
    /\ targetKeys = <<>>
    /\ log = <<>>
    /\ lastOp = NoOp

\* the property names read: the spec's keys, a name that is no key, the five
\* accessors and the internal prefixes field
ReadProps ==
    {specs[i].key : i \in 1..Len(specs)} \cup {OTHER_KEY, then} \cup accessorProps
        \cup {clientSafePrefixesField}

\* the property names written and deleted: the spec's keys, a name that is
\* no key, an accessor and the internal prefixes field
WriteProps ==
    {specs[i].key : i \in 1..Len(specs)} \cup {OTHER_KEY, isDev, clientSafePrefixesField}

Init == InitFrom(ExposureWorlds)

Next ==
    \/ Zenv
    \/ \E prop \in ReadProps : Get(prop)
    \/ \E prop \in WriteProps : Set(prop)
    \/ \E prop \in WriteProps : DefineProperty(prop)
    \/ \E prop \in WriteProps : DeleteProperty(prop)
    \/ Enumerate
    \/ \E w \in BOOLEAN : SetWindow(w)
    \/ \E mode \in Modes : SetNodeEnv(mode)

Spec == Init /\ [][Next]_vars

InitClient == InitFrom(ClientWorlds)
SpecClient == InitClient /\ [][Next]_vars

InitDefaults == InitFrom(DefaultsWorlds)
SpecDefaults == InitDefaults /\ [][Next]_vars

\* the failure-handling calls, with and without a `process` global
InitErrors ==
    /\ \E world \in ErrorWorlds, mode \in Modes :
          /\ specs = world.specs
          /\ options = world.options
          /\ processDefined \in BOOLEAN
          /\ processEnv = IF ~processDefined THEN EmptyMap
                          ELSE IF mode.set THEN (NODE_ENV :> Str(mode.v)) @@ world.processEnv
                          ELSE world.processEnv
    /\ window \in BOOLEAN
    /\ pc = "init"
    /\ target = EmptyMap
    /\ accessors = NoAccessors
    /\ metadata = EmptyMap
    /\ errors = <<>>
    /\ proxy = NoProxy
    /\ lastGet = NoGet
    /\ resolvedAt = [isClient |-> FALSE, penv |-> EmptyMap, source |-> EmptyMap]
    /\ ZENV_CLIENT = Unset
    /\ previous = Unset
    /\ validated = {}
    /\ targetKeys = <<>>
    /\ log = <<>>
    /\ lastOp = NoOp
SpecErrors == InitErrors /\ [][Next]_vars

\* values of the rendering calls, as their characters: a plain string, one
\* with a mixed-case closing tag followed by a quote and a backslash, one
\* that looks like an escaped closing tag, and a secret
plainValue == Str(<<"o", "k">>)
tagValue == Str(<<"<", "/", "S", "c", "R", "i", "P", "t", ">", "\"", "\\">>)
escapedTagValue == Str(<<"e", "<", "\\", "/", "s", "c", "r", "i", "p", "t", ">">>)
secretValue == Str(<<"s", "3", "c", "r">>)

\* a key that contains a closing tag
PUB_TAG == <<"P", "U", "B", "_", "<", "/", "s", "c", "r", "i", "p", "t", ">">>

\* the two-key specs of the rendering calls: a key a client-safe prefix
\* matches beside a secret, in both orders; a key both prefix lists match; a
\* key resolved to undefined beside a secret that declares client expose; a
\* key with a server default and a client default; a number; a key that
\* contains a closing tag
RenderSpecs ==
    LET pubA == [key |-> PUB_A, validator |-> Required(Unset)]
        pubS == [key |-> PUB_S, validator |-> Required(Unset)]
        sec == [key |-> SEC, validator |-> Validator(Unset, Declared(Bool(FALSE)), Unset, Unset, Unset)]
        secExposed == [key |-> SEC,
                       validator |-> Required(ClientConfig(TRUE, FALSE, Unset, Unset))]
        pubUndef == [key |-> PUB_A,
                     validator |-> Validator(Unset, Declared(Undef), Unset, Unset, Unset)]
        pubDefault == [key |-> PUB_A,
                       validator |-> Validator(Unset, Declared(escapedTagValue), Unset, Unset,
                                               ClientConfig(TRUE, FALSE, Declared(plainValue), Unset))]
        pubNum == [key |-> PUB_A,
                   validator |-> Validator(Unset, Declared(Num(42)), Unset, Unset, Unset)]
        pubTag == [key |-> PUB_TAG, validator |-> Required(Unset)]
    IN { <<pubA, sec>>, <<sec, pubA>>, <<pubS, pubA>>, <<pubUndef, secExposed>>,
         <<pubDefault, sec>>, <<pubNum, pubS>>, <<pubTag, sec>> }

\* the source of a rendering call: empty, or holding both keys of the spec
RenderSource(sp, full) ==
    IF full
    THEN (sp[1].key :> (IF sp[1].key = SEC THEN secretValue ELSE tagValue))
         @@ (sp[2].key :> (IF sp[2].key = SEC THEN secretValue ELSE plainValue))
    ELSE EmptyMap

\* the rendering calls: with both prefix lists and non-strict, or with
\* neither and strict; from process.env or from an object given as env
RenderWorlds ==
    { [specs |-> sp,
       options |-> Options(IF prefixes THEN Declared(FALSE) ELSE Unset, Unset, prefixes,
                           IF given THEN Declared(RenderSource(sp, full)) ELSE Unset),
       processEnv |-> IF given THEN EmptyMap ELSE RenderSource(sp, full)] :
        sp \in RenderSpecs, prefixes \in BOOLEAN, given \in BOOLEAN, full \in BOOLEAN }

\* the clientSafePrefixes arguments of getClientEnvScript: omitted; empty; one
\* prefix; prefixes that occur inside a key, differ from one in case or
\* match a derived boolean; a prefix of the secret; the empty prefix
ScriptArguments ==
    { Unset, Declared(<<>>), Declared(<<PUB_A>>),
      Declared(<<<<"U", "B", "_">>, <<"s", "e", "c">>, <<"p", "u", "b", "_">>, <<"i", "s">>>>),
      Declared(<<<<"S">>>>), Declared(<<<<>>>>) }

\* the value a source mutation assigns
MutatedValue == Str(<<"n", "<", "/", "s", "c", "r", "i", "p", "t", ">">>)

\* server-side rendering: a call in backend or front-end context, the script
\* for the page, the browser's own call from the injected object, changes of
\* the source after the call and a second call
InitRender ==
    /\ \E world \in RenderWorlds :
          /\ specs = world.specs
          /\ options = world.options
          /\ window \in BOOLEAN
          /\ processDefined \in (IF window THEN BOOLEAN ELSE {TRUE})
          /\ processEnv = IF processDefined THEN world.processEnv ELSE EmptyMap
    /\ pc = "init"
    /\ target = EmptyMap
    /\ accessors = NoAccessors
    /\ metadata = EmptyMap
    /\ errors = <<>>
    /\ proxy = NoProxy
    /\ lastGet = NoGet
    /\ resolvedAt = [isClient |-> FALSE, penv |-> EmptyMap, source |-> EmptyMap]
    /\ ZENV_CLIENT = Unset
    /\ previous = Unset
    /\ validated = {}
    /\ targetKeys = <<>>
    /\ log = <<>>
    /\ lastOp = NoOp

\* the property names read in the rendering calls: the spec's keys and the
\* internal prefixes field
RenderReadProps == {specs[i].key : i \in 1..Len(specs)} \cup {clientSafePrefixesField}

NextRender ==
    \/ Zenv
    \/ ZenvAgain
    \/ \E prop \in RenderReadProps : Get(prop)
    \/ Enumerate
    \/ \E clientSafePrefixes \in ScriptArguments : GetClientEnvScript(clientSafePrefixes)
    \/ \E pd \in BOOLEAN : InjectScript(pd)
    \/ \E key \in {specs[i].key : i \in 1..Len(specs)}, change \in {Unset, Declared(MutatedValue)} :
          MutateSource(key, change)

SpecRender == InitRender /\ [][NextRender]_vars

-----------------------------------------------------------------------------
(* Vocabulary of the claims, computed from the call's arguments              *)

SpecKeySet == {specs[i].key : i \in 1..Len(specs)}
ValidatorOf(key) == specs[CHOOSE i \in 1..Len(specs) : specs[i].key = key].validator

MatchesClientSafe(key) == startsWithAny(key, optionOr(options.clientSafePrefixes, <<>>))
MatchesServerOnly(key) == startsWithAny(key, optionOr(options.serverOnlyPrefixes, <<>>))
DeclaresExpose(key) == ValidatorOf(key).client.set /\ ValidatorOf(key).client.v.expose

\* effective exposure of a spec key, from the call's arguments
EffectivelyExposed(key) ==
    ~MatchesServerOnly(key) /\ (MatchesClientSafe(key) \/ DeclaresExpose(key))

\* effective exposure of a key, from its recorded metadata
MetaExposed(meta) ==
    /\ ~meta.serverOnly
    /\ \/ meta.autoExposed.set /\ meta.autoExposed.v
       \/ meta.client.set /\ meta.client.v.expose

\* a read has been made in the context and mode the state is in
ReadDone == pc = "returned" /\ lastGet.kind # "none"
FrontEndRead == ReadDone /\ window
BackendRead == ReadDone /\ ~window
KeyHasError(key) == \E i \in 1..Len(errors) : errors[i].key = key
KeyErrorKinds(key) == {errors[i].kind : i \in {j \in 1..Len(errors) : errors[j].key = key}}

\* the raw source of the call: the object given in the options, else
\* process.env, as it is now and as it was when zenv ran
SourceNow == IF options.env.set THEN options.env.v ELSE processEnv
SourceAtResolve == IF options.env.set THEN options.env.v ELSE resolvedAt.penv

\* the execution mode: NODE_ENV of process.env, "production" when unset
ModeOf(penv) == IF NODE_ENV \in DOMAIN penv THEN penv[NODE_ENV].v ELSE "production"

\* the five booleans as literal comparisons of a mode string
Comparisons(mode) ==
    [isDevelopment |-> mode = "development", isDev |-> mode = "development",
     isProduction |-> mode = "production", isProd |-> mode = "production",
     isTest |-> mode = "test"]
AllFalse ==
    [isDevelopment |-> FALSE, isDev |-> FALSE, isProduction |-> FALSE,
     isProd |-> FALSE, isTest |-> FALSE]

-----------------------------------------------------------------------------
(* C1  On a result resolved in front-end context with onClientAccessError   *)
(* 'ignore' or 'warn' and any strict setting, a read of a spec key that      *)
(* matches no client-safe prefix and does not declare client expose: true    *)
(* returns undefined and does not raise.                                     *)
C1_HiddenKeyReadsUndefined ==
    (/\ FrontEndRead
     /\ resolvedAt.isClient
     /\ proxy.onClientAccessError \in {"ignore", "warn"}
     /\ lastGet.prop \in SpecKeySet
     /\ ~MatchesClientSafe(lastGet.prop)
     /\ ~DeclaresExpose(lastGet.prop))
    => (lastGet.kind = "return" /\ lastGet.value = Undef)

(* C2  For every key matching a serverOnlyPrefixes entry, whatever its       *)
(* validator declares and whatever other prefix it matches, the recorded     *)
(* metadata has serverOnly true, autoExposed not true and client.expose not  *)
(* true, and no front-end read returns the stored value of the key.          *)
C2_ServerOnlyNeverRead ==
    /\ \A key \in SpecKeySet \cap DOMAIN metadata :
          MatchesServerOnly(key) =>
              /\ metadata[key].serverOnly
              /\ ~(metadata[key].autoExposed.set /\ metadata[key].autoExposed.v)
              /\ ~(metadata[key].client.set /\ metadata[key].client.v.expose)
    /\ (/\ FrontEndRead
        /\ lastGet.prop \in DOMAIN target
        /\ MatchesServerOnly(lastGet.prop)
        /\ target[lastGet.prop] # Undef)
       => ~(lastGet.kind = "return" /\ lastGet.value = target[lastGet.prop])

(* C3  A front-end read of a key present in the result treats it as exposed  *)
(* (returns its value instead of applying the access-violation policy)       *)
(* exactly when !serverOnly && (autoExposed || client.expose === true).      *)
C3_ExposureFormula ==
    (/\ FrontEndRead
     /\ lastGet.prop \in DOMAIN target
     /\ lastGet.prop \in DOMAIN metadata
     /\ target[lastGet.prop] # Undef)
    => (MetaExposed(metadata[lastGet.prop])
           <=> (lastGet.kind = "return" /\ lastGet.value # Undef))

(* C4  A front-end read of a key present in the result but not exposed       *)
(* applies the configured policy and never yields the stored value: 'throw'  *)
(* raises a client-access error naming the key, 'warn' warns iff the mode is *)
(* development at the read and returns undefined, 'ignore' returns undefined *)
(* silently.                                                                 *)
C4_AccessPolicy ==
    (/\ FrontEndRead
     /\ lastGet.prop \in DOMAIN target
     /\ lastGet.prop \in DOMAIN metadata
     /\ ~MetaExposed(metadata[lastGet.prop]))
    => lastGet = CASE proxy.onClientAccessError = "throw" ->
                          Thrown(lastGet.prop, "ClientAccessError")
                   [] proxy.onClientAccessError = "warn" ->
                          Returned(lastGet.prop, Undef, nodeEnv(processEnv) = "development")
                   [] proxy.onClientAccessError = "ignore" ->
                          Returned(lastGet.prop, Undef, FALSE)

(* C5  Resolution in front-end context skips every spec key whose effective  *)
(* exposure is false: its validator is not invoked, no failure is recorded   *)
(* for it, and its metadata has serverOnly true.                             *)
C5_HiddenKeysSkipped ==
    (pc # "init" /\ resolvedAt.isClient)
    => \A key \in SpecKeySet :
          (ValidatorOf(key).valid /\ ~EffectivelyExposed(key)) =>
              /\ key \notin validated
              /\ ~KeyHasError(key)
              /\ key \in DOMAIN metadata
              /\ metadata[key].serverOnly

(* C6  In backend context a read of a key present in the result returns      *)
(* exactly the stored value: no exposure check, no client default or         *)
(* devDefault, no client transform, no access-violation policy.              *)
C6_BackendReadVerbatim ==
    (BackendRead /\ lastGet.prop \in DOMAIN target)
    => lastGet = Returned(lastGet.prop, target[lastGet.prop], FALSE)

\* a backend read of a key with a client default and a client transform,
\* absent from the source, resolved to its server default
C6_Witness ==
    /\ BackendRead
    /\ lastGet.prop \in DOMAIN target
    /\ lastGet.prop \notin DOMAIN SourceNow
    /\ ValidatorOf(lastGet.prop).client.set
    /\ ValidatorOf(lastGet.prop).client.v.transform
    /\ ValidatorOf(lastGet.prop).client.v.dflt.set
    /\ ~ValidatorOf(lastGet.prop).client.v.expose
    /\ lastGet.value = Str("default")

\* the value C7 names for a front-end read of an exposed key
C7_Expected(key) ==
    LET client == metadata[key].client
        chosen == IF key \in DOMAIN SourceNow THEN target[key]
                  ELSE IF /\ client.set
                          /\ ModeOf(processEnv) = "development"
                          /\ FieldValue(client.v.devDefault) # Undef
                       THEN client.v.devDefault.v
                  ELSE IF client.set /\ FieldValue(client.v.dflt) # Undef
                       THEN client.v.dflt.v
                  ELSE target[key]
    IN IF client.set /\ client.v.transform /\ chosen # Undef
       THEN applyTransform(chosen)
       ELSE chosen

(* C7  A front-end read of an exposed key present in the result returns the  *)
(* stored value if the source contains the key, else the client devDefault   *)
(* (development mode, defined), else the client default (defined), else the  *)
(* stored value; a configured client transform is applied last to a chosen   *)
(* value that is not undefined.                                              *)
C7_ClientValue ==
    (/\ FrontEndRead
     /\ lastGet.prop \in DOMAIN target
     /\ lastGet.prop \in DOMAIN metadata
     /\ MetaExposed(metadata[lastGet.prop]))
    => lastGet = Returned(lastGet.prop, C7_Expected(lastGet.prop), FALSE)

\* what the default chain of C8 gives a validated key
C8_Expected(key) ==
    LET validator == ValidatorOf(key)
        raw == Lookup(SourceAtResolve, key)
        mode == ModeOf(resolvedAt.penv)
    IN IF raw # Undef
       THEN IF validator.choices.set /\ raw \notin validator.choices.v
            THEN [ok |-> FALSE, kind |-> "invalid"]
            ELSE [ok |-> TRUE, value |-> raw]
       ELSE IF mode = "development" /\ validator.devDefault.set
            THEN [ok |-> TRUE, value |-> validator.devDefault.v]
       ELSE IF mode = "test" /\ validator.testDefault.set
            THEN [ok |-> TRUE, value |-> validator.testDefault.v]
       ELSE IF validator.dflt.set
            THEN [ok |-> TRUE, value |-> validator.dflt.v]
       ELSE [ok |-> FALSE, kind |-> "missing"]

C9_AccessorsFollowModeAtRead ==
    (/\ ReadDone
     /\ lastGet.prop \in accessorProps
     /\ NODE_ENV \notin DOMAIN target
     /\ NODE_ENV \notin DOMAIN SourceAtResolve)
    => lastGet = Returned(lastGet.prop,
                          accessorValue(Comparisons(ModeOf(processEnv)), lastGet.prop), FALSE)

AbsentName(prop) ==
    /\ prop \notin DOMAIN target
    /\ prop \notin accessorProps
    /\ ~(prop = clientSafePrefixesField /\ proxy.prefixesField.set)

OriginalResult ==
    validateSpecs(specs, SourceAtResolve, options, resolvedAt.isClient, resolvedAt.penv)
ResultIntact ==
    /\ target = OriginalResult.result
    /\ targetKeys = ownKeysOf(OriginalResult.keyOrder, options)
    /\ accessors = addEnvAccessors(OriginalResult.result, SourceAtResolve, resolvedAt.penv)

(* C12  Every assignment to, and every property definition on, the result    *)
(* raises a mutation error (TypeError) whose message contains the property   *)
(* name, for existing keys, derived booleans and new names, in any context;  *)
(* afterwards the key set and every stored value are unchanged.              *)
C12_WritesRaise ==
    (pc = "returned" /\ lastOp.op \in {"set", "defineProperty"})
    => /\ lastOp.kind = "throw"
       /\ lastOp.error = "TypeError"
       /\ lastOp.message.name = lastOp.prop
       /\ ResultIntact

\* an assignment to a resolved key in front-end context
C12_Witness ==
    /\ pc = "returned"
    /\ window
    /\ lastOp.op = "set"
    /\ lastOp.prop \in DOMAIN target
    /\ lastOp.kind = "throw"
    /\ target[lastOp.prop] = Str("raw")

(* C13  A delete request on the result never raises and never removes        *)
(* anything, for every property name: a resolved key, a derived boolean, the *)
(* internal client-safe-prefixes field or a name that does not exist.        *)
C13_DeleteNeverRaises ==
    (pc = "returned" /\ lastOp.op = "deleteProperty")
    => /\ lastOp.kind = "return"
       /\ ResultIntact

\* the spec keys whose validation succeeded, in spec declaration order
SucceededKeys ==
    LET succeeded == SelectSeq(specs, LAMBDA e : e.key \in validated /\ ~KeyHasError(e.key))
    IN [i \in 1..Len(succeeded) |-> succeeded[i].key]

\* the names that are own but not enumerable
HiddenOwnNames ==
    <<isDevelopment, isDev, isProduction, isProd, isTest>>
        \o (IF options.clientSafePrefixes.set THEN <<clientSafePrefixesField>> ELSE <<>>)

Failing(key) ==
    \/ ~ValidatorOf(key).valid
    \/ key \in validated /\ ~C8_Expected(key).ok
KeysOf(entries) == [i \in 1..Len(entries) |-> entries[i].key]

\* the spec without its failing entries, resolved in the same context from
\* the same source
WithoutFailing ==
    validateSpecs(SelectSeq(specs, LAMBDA e : ~Failing(e.key)), SourceAtResolve, options,
                  resolvedAt.isClient, resolvedAt.penv)

(* C15  Resolution never short-circuits: each failing key (an entry that is  *)
(* not a validator, a missing value, a rejected value) produces exactly one  *)
(* failure record for that key, the records are in spec declaration order,   *)
(* and every non-failing key is resolved to the value it would have had if   *)
(* the failing keys were not in the spec.                                    *)
C15_NoShortCircuit ==
    (pc # "init")
    => /\ KeysOf(errors) = KeysOf(SelectSeq(specs, LAMBDA e : Failing(e.key)))
       /\ \A i \in 1..Len(errors) :
             errors[i].kind = IF ~ValidatorOf(errors[i].key).valid THEN "custom"
                              ELSE C8_Expected(errors[i].key).kind
       /\ WithoutFailing.errors = <<>>
       /\ OriginalResult.result = WithoutFailing.result
       /\ OriginalResult.keyOrder = WithoutFailing.keyOrder
       /\ pc = "returned" => target = WithoutFailing.result

\* the first entry is not a validator and the second key is resolved from
\* the source
C15_Witness ==
    /\ pc = "returned"
    /\ Len(specs) = 2
    /\ ~specs[1].validator.valid
    /\ KeysOf(errors) = <<specs[1].key>>
    /\ specs[2].key \in DOMAIN target
    /\ target[specs[2].key] = Str("raw")

(* C16  After resolution every key of the spec has an entry in the metadata  *)
(* map, whatever the outcome for that key: validated, failed, rejected as an *)
(* unrecognized validator entry, or skipped on the front-end.                *)
C16_MetadataForEveryKey ==
    (pc # "init") => \A key \in SpecKeySet : key \in DOMAIN metadata

\* the events of the log that are zenv's outcome, a reporter call, a default
\* report
PolicyEvents == SelectSeq(log, LAMBDA e : e.ev \in {"throw", "exit", "return"})
ReporterCalls == SelectSeq(log, LAMBDA e : e.ev = "reporter")
DefaultReports ==
    SelectSeq(log, LAMBDA e : e.ev = "console.error" /\ "invalid" \in DOMAIN e.text)

C18_FailedKeyReadsAbsent ==
    (pc = "returned" /\ options.onError = Declared("return"))
    => /\ DOMAIN target = {SucceededKeys[i] : i \in 1..Len(SucceededKeys)}
       /\ (lastGet.kind # "none" /\ KeyHasError(lastGet.prop))
             => /\ lastGet.prop \notin DOMAIN target
                /\ IF proxy.strict
                   THEN lastGet = Thrown(lastGet.prop, "ReferenceError")
                   ELSE lastGet.kind = "return" /\ lastGet.value = Undef

(* C19  With at least one failure exactly one policy takes effect: zenv      *)
(* hands a result back only if onError is 'return'; under 'throw' it raises  *)
(* and under 'exit' it terminates the process, in every execution context.   *)
C19_OnePolicy ==
    (pc # "init" /\ Len(errors) > 0 /\ options.onError.set)
    => /\ Len(PolicyEvents) = 1
       /\ pc = CASE options.onError.v = "throw" -> "thrown"
                 [] options.onError.v = "exit" -> "exited"
                 [] options.onError.v = "return" -> "returned"

(* C20  With failures, reporting happens exactly once and strictly before    *)
(* the policy acts: a configured reporter is called once with the full       *)
(* failure list and the raw source and the default report is not emitted;    *)
(* otherwise the default report is emitted once; with no failures nothing    *)
(* is reported.                                                              *)
C20_ReportOnceBeforePolicy ==
    (pc # "init")
    => /\ Len(PolicyEvents) = 1
       /\ log[Len(log)] = PolicyEvents[1]
       /\ (Len(errors) = 0) => (ReporterCalls = <<>> /\ DefaultReports = <<>>)
       /\ (Len(errors) > 0 /\ options.reporter.set)
             => /\ ReporterCalls = <<[ev |-> "reporter", errors |-> errors,
                                      env |-> SourceAtResolve]>>
                /\ log[1] = ReporterCalls[1]
                /\ DefaultReports = <<>>
                /\ Len(log) = 2
       /\ (Len(errors) > 0 /\ ~options.reporter.set)
             => /\ ReporterCalls = <<>>
                /\ Len(DefaultReports) = 1
                /\ log[1] = DefaultReports[1]
                /\ KeysOf(log[1].text.invalid) \o KeysOf(log[1].text.missing)
                      = KeysOf(SelectSeq(errors, LAMBDA e : e.kind # "missing"))
                        \o KeysOf(SelectSeq(errors, LAMBDA e : e.kind = "missing"))
                /\ Len(log[1].text.invalid) + Len(log[1].text.missing) = Len(errors)

\* the process exits after the default report of two failures
C20_Witness ==
    /\ pc = "exited"
    /\ ~options.reporter.set
    /\ Len(errors) = 2
    /\ Len(DefaultReports) = 1
    /\ log[Len(log)] = [ev |-> "exit", code |-> 1]

-----------------------------------------------------------------------------
(* C21  When onError is not given, a call with failures ends by the default  *)
(* policy of its context: the process exits in backend context (no window,   *)
(* a process) and zenv raises in front-end context (a window), whether or    *)
(* not a process global is present beside the window.                        *)
C21_DefaultPolicyByContext ==
    (pc # "init" /\ ~options.onError.set /\ Len(errors) > 0)
    => /\ (~resolvedAt.isClient /\ processDefined) => pc = "exited"
       /\ resolvedAt.isClient => pc = "thrown"

(* C22  When options.env is not given, zenv resolves from process.env in     *)
(* backend context; in front-end context from the injected object            *)
(* window.__ZENV_CLIENT__ when there is one and from an empty map otherwise, *)
(* and never from process.env, whether or not a process global is present.   *)
C22_DefaultSource ==
    (pc # "init" /\ ~options.env.set)
    => resolvedAt.source = IF ~resolvedAt.isClient THEN resolvedAt.penv
                           ELSE IF ZENV_CLIENT.set THEN AsMap(ZENV_CLIENT.v)
                           ELSE EmptyMap

-----------------------------------------------------------------------------
(* Vocabulary of the claims about the bootstrap script                       *)

\* getClientEnvScript has returned or raised, in the context the state is in
ScriptDone == pc = "returned" /\ lastOp.op = "getClientEnvScript"
BackendScript == ScriptDone /\ ~window
FrontEndScript == ScriptDone /\ window

\* sub occurs in text
Occurs(sub, text) ==
    \E i \in 1..(Len(text) - Len(sub) + 1) : SubSeq(text, i, i + Len(sub) - 1) = sub

\* the object the script assigns, decoded from its literal
Decoded == JSONparse(literalOf(lastOp.script))

\* the enumerable keys of the result: the resolved keys, in the order resolved
EnumerableKeys == SelectSeq(targetKeys, LAMBDA k : k \in DOMAIN target)

\* the effective prefix list of a script call: the explicit argument if
\* given, else the list retained on the result, else empty
EffectivePrefixList ==
    IF lastOp.clientSafePrefixes.set THEN lastOp.clientSafePrefixes.v
    ELSE IF options.clientSafePrefixes.set THEN options.clientSafePrefixes.v
    ELSE <<>>

\* key starts, literally and from its first character, with some prefix of
\* the effective list
MatchesEffectivePrefix(key) ==
    \E p \in 1..Len(EffectivePrefixList) :
        /\ Len(EffectivePrefixList[p]) <= Len(key)
        /\ SubSeq(key, 1, Len(EffectivePrefixList[p])) = EffectivePrefixList[p]

\* the pairs C23 names, in key order
C23_Expected ==
    LET keys == SelectSeq(EnumerableKeys,
                          LAMBDA k : MatchesEffectivePrefix(k) /\ target[k] # Undef)
    IN [i \in 1..Len(keys) |-> <<keys[i], target[keys[i]]>>]

(* C23  In backend context the bootstrap script is one assignment to         *)
(* window.__ZENV_CLIENT__ whose object holds exactly the enumerable result   *)
(* keys that start, case-sensitively and from position 0, with a prefix of   *)
(* the effective list (the argument if given, else the list retained on the  *)
(* result, else empty) and whose value is not undefined; neither the name    *)
(* nor the string value of any other variable occurs in the output.          *)
C23_ScriptHoldsPrefixedKeys ==
    BackendScript
    => /\ lastOp.kind = "return"
       /\ SubSeq(lastOp.script, 1, Len(assignmentHead)) = assignmentHead
       /\ lastOp.script[Len(lastOp.script)] = ";"
       /\ Decoded = C23_Expected
       /\ \A key \in DOMAIN target \cup accessorProps \cup {clientSafePrefixesField} :
             (\A i \in 1..Len(C23_Expected) : C23_Expected[i][1] # key)
             => /\ ~Occurs(key, lastOp.script)
                /\ (key \in DOMAIN target /\ target[key] # Undef /\ target[key].t = "string")
                      => ~Occurs(target[key].v, lastOp.script)

\* a backend script from the retained prefixes: the prefixed key is in it
\* with its value, the secret beside it is not
C23_Witness ==
    /\ BackendScript
    /\ ~lastOp.clientSafePrefixes.set
    /\ options.clientSafePrefixes.set
    /\ Decoded = <<<<PUB_A, tagValue>>>>
    /\ SEC \in DOMAIN target
    /\ target[SEC] = secretValue

\* the letters /<\/script>/i accepts at each position
closeTagLetters ==
    <<{"<"}, {"/"}, {"s", "S"}, {"c", "C"}, {"r", "R"}, {"i", "I"}, {"p", "P"}, {"t", "T"},
      {">"}>>

\* text contains </script> in some letter case
HasCloseTag(text) ==
    \E i \in 1..(Len(text) - 8) : \A j \in 1..9 : text[i + j - 1] \in closeTagLetters[j]

\* a pair whose key or string value contains a closing tag
PairHasCloseTag(pair) ==
    \/ HasCloseTag(pair[1])
    \/ (pair[2].t = "string" /\ HasCloseTag(pair[2].v))

(* C24  On the backend path and on the front-end hydration path, the script  *)
(* contains no </script> in any letter case, and its literal decodes to      *)
(* exactly the pairs that were serialized: the included pairs of the result  *)
(* on the backend, the injected object on the front-end.                     *)
C24_EscapingLossless ==
    (ScriptDone /\ lastOp.kind = "return" /\ lastOp.script # <<>>)
    => /\ ~HasCloseTag(lastOp.script)
       /\ Decoded = IF window THEN ZENV_CLIENT.v ELSE C23_Expected

\* the hydration script of an injected object with a closing tag in a value
\* or in a key
C24_Witness ==
    /\ FrontEndScript
    /\ ZENV_CLIENT.set
    /\ \E i \in 1..Len(ZENV_CLIENT.v) : PairHasCloseTag(ZENV_CLIENT.v[i])
    /\ lastOp.script # <<>>
    /\ Decoded = ZENV_CLIENT.v

\* what the default chain gives a validated key resolved from `source` in
\* the mode of `penv`
ResolvesTo(key, source, penv) ==
    LET validator == ValidatorOf(key)
        raw == Lookup(source, key)
        mode == ModeOf(penv)
    IN IF raw # Undef
       THEN IF validator.choices.set /\ raw \notin validator.choices.v
            THEN [ok |-> FALSE, kind |-> "invalid"]
            ELSE [ok |-> TRUE, value |-> raw]
       ELSE IF mode = "development" /\ validator.devDefault.set
            THEN [ok |-> TRUE, value |-> validator.devDefault.v]
       ELSE IF mode = "test" /\ validator.testDefault.set
            THEN [ok |-> TRUE, value |-> validator.testDefault.v]
       ELSE IF validator.dflt.set
            THEN [ok |-> TRUE, value |-> validator.dflt.v]
       ELSE [ok |-> FALSE, kind |-> "missing"]

\* the latest call and the one before it had the same source contents,
\* context and mode (the spec and the options are those of every call)
SameInputs ==
    /\ previous.v.source = resolvedAt.source
    /\ previous.v.isClient = resolvedAt.isClient
    /\ ModeOf(previous.v.penv) = ModeOf(resolvedAt.penv)

NoValueNoDefault(key) ==
    /\ Lookup(resolvedAt.source, key) = Undef
    /\ ~applicableDefault(ValidatorOf(key), resolvedAt.penv).set

\* a value was present and the validator rejected it
PresentAndRejected(key) ==
    /\ ValidatorOf(key).valid
    /\ Lookup(resolvedAt.source, key) # Undef
    /\ ~ResolvesTo(key, resolvedAt.source, resolvedAt.penv).ok

\* the default report has been emitted: its two buckets
Reported == pc # "init" /\ Len(DefaultReports) = 1
MissingBucket == KeysOf(DefaultReports[1].text.missing)
InvalidBucket == KeysOf(DefaultReports[1].text.invalid)
InBucket(key, bucket) == \E i \in 1..Len(bucket) : bucket[i] = key

DecodedKeys == {Decoded[i][1] : i \in 1..Len(Decoded)}

(* C27  The bootstrap script generated from a zenv result built with both    *)
(* clientSafePrefixes and serverOnlyPrefixes (the prefixes taken from the    *)
(* result) contains no key that resolution marked serverOnly, also when the  *)
(* key matches a client-safe prefix as well.                                 *)
C27_NoServerOnlyKeyInScript ==
    (/\ BackendScript
     /\ lastOp.kind = "return"
     /\ ~lastOp.clientSafePrefixes.set
     /\ options.clientSafePrefixes.set
     /\ options.serverOnlyPrefixes.set)
    => \A key \in DecodedKeys : ~(key \in DOMAIN metadata /\ metadata[key].serverOnly)

(* C28  Serialization and read exposure agree: every key of a backend result *)
(* that a front-end read treats as exposed (by a client-safe prefix or by    *)
(* client expose: true) and whose value is defined is in the backend script  *)
(* generated from the result's own prefixes, so that the front-end call      *)
(* finds a raw value for it in the injected object.                          *)
C28_ExposedKeysSerialized ==
    (BackendScript /\ lastOp.kind = "return" /\ ~lastOp.clientSafePrefixes.set)
    => \A key \in DOMAIN target :
          (/\ key \in DOMAIN metadata
           /\ isExposed(Declared(metadata[key]))
           /\ target[key] # Undef)
          => key \in DecodedKeys

\* the proxy as it would be if it held a copy of the source taken at resolution
SnapshotProxy == [proxy EXCEPT !.usesProcessEnv = FALSE, !.rawEnv = resolvedAt.source]

(* C29  Once zenv has returned, a read of the result gives what it gave      *)
(* before any later addition, removal or update of a source key: the value   *)
(* the get trap computes from the source as it was when zenv resolved.       *)
C29_ReadsIgnoreSourceChanges ==
    (pc = "returned" /\ lastGet.kind # "none")
    => lastGet = get(lastGet.prop, target, accessors, metadata, SnapshotProxy,
                     window, processEnv)

\* the result with the stored value of every non-exposed key replaced
OtherStored ==
    [k \in DOMAIN target |->
        IF k \in DOMAIN metadata /\ ~isExposed(Declared(metadata[k]))
        THEN Str("other")
        ELSE target[k]]

\* env[key] for a spec key gives the same outcome on both results
C30_ReadsAgree ==
    (lastGet.kind # "none" /\ lastGet.prop \in DOMAIN metadata)
    => lastGet = get(lastGet.prop, OtherStored, accessors, metadata, proxy, window, processEnv)

\* Object.entries(env) (values, spread) gives the same outcome on both results
C30_EntriesAgree ==
    lastOp.op = "enumerate"
    => lastOp.entries = ObjectEntries(targetKeys, OtherStored, accessors, metadata, proxy,
                                      window, processEnv)

\* Object.getOwnPropertyDescriptor(env, key) is the same on both results
C30_DescriptorsAgree ==
    \A key \in DOMAIN metadata :
        getOwnPropertyDescriptor(key, target, accessors, proxy)
            = getOwnPropertyDescriptor(key, OtherStored, accessors, proxy)

(* C30  Front-end non-interference: on a result built on the backend, every  *)
(* front-end observation (a read of a spec key name, pass-through names      *)
(* included; the enumeration of entries; an own-property-descriptor lookup)  *)
(* is the same when the stored values of the non-exposed keys are replaced.  *)
C30_FrontEndNonInterference ==
    (pc = "returned" /\ ~resolvedAt.isClient /\ window)
    => (C30_ReadsAgree /\ C30_EntriesAgree /\ C30_DescriptorsAgree)

====
